---- MODULE Spec2Model ----
(***************************************************************************)
(* The n-gram language model of Assignement_1_Language_modeling.ipynb:     *)
(* the preprocessing functions (add_sentence_tokens, replace_singletons,  *)
(* preprocess) and the LanguageModel class (__init__, _smooth,             *)
(* _create_model), plus the sentence generator the notebook calls.         *)
(*                                                                         *)
(* A Python str is a sequence of characters.  The characters are the       *)
(* letters of Letters, the space " " and three atoms "<s>", "</s>" and     *)
(* "<UNK>" standing for the character runs of the reserved markers (the    *)
(* raw sentences never hold them).  A token is a str without a space.      *)
(* A probability is the exact fraction <<numerator, denominator>> of the   *)
(* Python float division, kept unreduced.                                  *)
(***************************************************************************)
EXTENDS Integers, Sequences, FiniteSets

VARIABLES train_data, status, n, laplace, tokens, vocab, model, masks,
          gstate, sent, prob, min_len, max_len, left

vars == <<train_data, status, n, laplace, tokens, vocab, model, masks,
          gstate, sent, prob, min_len, max_len, left>>

lmvars == <<train_data, status, n, laplace, tokens, vocab, model, masks>>

genvars == <<gstate, sent, prob, min_len, max_len, left>>

\* ------------------------------------------------------------- bounds
\* longest raw sentence, in characters
MaxLen == 2
\* most sentences in a training corpus
MaxSent == 2
\* highest model order
MaxN == 3
\* highest smoothing constant
MaxLaplace == 2
\* highest min_len / max_len of a generation call
MaxGenLen == 2
\* most sentences one generation call asks for
MaxCount == 2

Letters == {"a"}

Chars == Letters \cup {" "}

\* all str of at most k characters
RECURSIVE Strs(_)
Strs(k) ==
  IF k = 0 THEN {<<>>}
  ELSE LET S == Strs(k - 1)
       IN  S \cup {Append(s, c) : s \in {t \in S : Len(t) = k - 1}, c \in Chars}

Sentences == Strs(MaxLen)

RECURSIVE Lists(_)
Lists(k) ==
  IF k = 0 THEN {<<>>}
  ELSE LET S == Lists(k - 1)
       IN  S \cup {Append(l, s) : l \in {t \in S : Len(t) = k - 1}, s \in Sentences}

Corpora == Lists(MaxSent)

\* the orders and smoothing constants a constructor call is tried with
\* (the constructor validates neither)
Orders == -1..MaxN

Laplaces == -1..MaxLaplace

\* ------------------------------------------------------------- markers
SOS == <<"<s>", " ">>

EOS == <<"</s>">>

UNK == <<"<UNK>">>

\* the token SOS leaves in the stream once the text is split on spaces
SOSToken == <<"<s>">>

Reserved == {SOSToken, EOS, UNK}

\* ------------------------------------------------------------- str helpers
\* Python's str * k ('' for k <= 0)
RECURSIVE StrTimes(_, _)
StrTimes(s, k) == IF k <= 0 THEN <<>> ELSE s \o StrTimes(s, k - 1)

\* ' '.join(strs)
RECURSIVE join(_)
join(strs) ==
  IF Len(strs) = 0 THEN <<>>
  ELSE IF Len(strs) = 1 THEN strs[1]
  ELSE strs[1] \o <<" ">> \o join(Tail(strs))

\* str.split(' '): cut at every single space; '' gives [''], and two
\* adjacent spaces give an empty str between them
RECURSIVE split(_)
split(str) ==
  LET sp == {i \in 1..Len(str) : str[i] = " "}
  IN  IF sp = {} THEN <<str>>
      ELSE LET i == CHOOSE j \in sp : \A k \in sp : j <= k
           IN  <<SubSeq(str, 1, i - 1)>> \o split(SubSeq(str, i + 1, Len(str)))

\* ------------------------------------------------------------- nltk
\* nltk.FreqDist(items): the count of every item, absent keys reading 0
FreqDist(items) ==
  [x \in {items[i] : i \in 1..Len(items)} |->
     Cardinality({i \in 1..Len(items) : items[i] = x})]

Get(fd, key) == IF key \in DOMAIN fd THEN fd[key] ELSE 0

\* nltk.ngrams(seq, k) for k >= 1: the contiguous windows of k items, none
\* when seq is shorter than k
ngrams(seq, k) ==
  IF Len(seq) < k THEN <<>>
  ELSE [i \in 1..(Len(seq) - k + 1) |-> SubSeq(seq, i, i + k - 1)]

\* ------------------------------------------------------------- preprocessing
add_sentence_tokens(sentences, nn) ==
  LET sos == IF nn > 1 THEN StrTimes(SOS, nn - 1) ELSE SOS
  IN  [i \in 1..Len(sentences) |-> sos \o sentences[i] \o <<" ">> \o EOS]

\* the token stream before the singletons are replaced
raw_tokens(sentences, nn) == split(join(add_sentence_tokens(sentences, nn)))

\* mutant: the threshold off by one, so singletons are kept
replace_singletons_ge1(toks) ==
  LET fd == FreqDist(toks)
  IN  [i \in 1..Len(toks) |-> IF fd[toks[i]] >= 1 THEN toks[i] ELSE UNK]

replace_singletons(toks) ==
  LET fd == FreqDist(toks)
  IN  [i \in 1..Len(toks) |-> IF fd[toks[i]] > 1 THEN toks[i] ELSE UNK]

preprocess(sentences, nn) == replace_singletons(raw_tokens(sentences, nn))

\* ------------------------------------------------------------- LanguageModel
\* nltk.ngrams (itertools underneath) raises ValueError for a negative
\* window length: reached in _smooth with n - 1 whenever n < 1
ngrams_raises(k) == k < 0

\* mutant: the context count looked up under the n-gram's last n-1 tokens
smoothed_count_suffix(n_gram, n_count, m_vocab, lap, vocab_size) ==
  LET m_gram == SubSeq(n_gram, 2, Len(n_gram))
      m_count == Get(m_vocab, m_gram)
  IN  <<n_count + lap, m_count + lap * vocab_size>>

\* mutant: the constant added to the denominator once, not once per token
smoothed_count_novocab(n_gram, n_count, m_vocab, lap, vocab_size) ==
  LET m_gram == SubSeq(n_gram, 1, Len(n_gram) - 1)
      m_count == Get(m_vocab, m_gram)
  IN  <<n_count + lap, m_count + lap>>

\* mutant: the constant missing from the numerator
smoothed_count_rawnum(n_gram, n_count, m_vocab, lap, vocab_size) ==
  LET m_gram == SubSeq(n_gram, 1, Len(n_gram) - 1)
      m_count == Get(m_vocab, m_gram)
  IN  <<n_count, m_count + lap * vocab_size>>

\* the closure smoothed_count of _smooth, its free variables as parameters
smoothed_count(n_gram, n_count, m_vocab, lap, vocab_size) ==
  LET m_gram == SubSeq(n_gram, 1, Len(n_gram) - 1)
      m_count == Get(m_vocab, m_gram)
  IN  <<n_count + lap, m_count + lap * vocab_size>>

smooth(toks, voc, nn, lap) ==
  LET vocab_size == Cardinality(DOMAIN voc)
      n_vocab == FreqDist(ngrams(toks, nn))
      m_vocab == FreqDist(ngrams(toks, nn - 1))
  IN  [g \in DOMAIN n_vocab |->
         smoothed_count(g, n_vocab[g], m_vocab, lap, vocab_size)]

\* mutant: the unigram table smoothed like the others
create_model_smoothed(toks, voc, nn, lap) ==
  IF nn = 1
  THEN LET num_tokens == Len(toks)
           vocab_size == Cardinality(DOMAIN voc)
       IN  [g \in {<<t>> : t \in DOMAIN voc} |->
              <<voc[g[1]] + lap, num_tokens + lap * vocab_size>>]
  ELSE smooth(toks, voc, nn, lap)

create_model(toks, voc, nn, lap) ==
  IF nn = 1
  THEN LET num_tokens == Len(toks)
       IN  [g \in {<<t>> : t \in DOMAIN voc} |-> <<voc[g[1]], num_tokens>>]
  ELSE smooth(toks, voc, nn, lap)

\* the float division of a table entry raises ZeroDivisionError
division_raises(table) == \E g \in DOMAIN table : table[g][2] = 0

\* Pow2(k) = 2 ** k
RECURSIVE Pow2(_)
Pow2(k) == IF k <= 0 THEN 1 ELSE 2 * Pow2(k - 1)

\* list(reversed(list(product((0,1), repeat=n)))): the 2^n bit patterns
\* from all ones down to all zeros
masks_of(nn) ==
  [i \in 1..Pow2(nn) |->
     [j \in 1..nn |-> ((Pow2(nn) - i) \div Pow2(nn - j)) % 2]]

NoTable == [x \in {} |-> 0]

\* no model constructed, no generation call running
Unbuilt ==
  /\ status = "none"
  /\ n = 0
  /\ laplace = 0
  /\ tokens = <<>>
  /\ vocab = NoTable
  /\ model = NoTable
  /\ masks = <<>>
  /\ gstate = "IDLE"
  /\ sent = <<>>
  /\ prob = <<1, 1>>
  /\ min_len = 0
  /\ max_len = 0
  /\ left = 0

Init == train_data \in Corpora /\ Unbuilt

\* LanguageModel(train_data, nn, laplace=lap): __init__ assigns n, laplace,
\* tokens and vocab, then _create_model builds the table and the masks
\* follow.  When _create_model raises, the constructor is left there: model
\* and masks are never assigned and the caller gets no object.
Construct(nn, lap) ==
  /\ status = "none"
  /\ n' = nn
  /\ laplace' = lap
  /\ tokens' = preprocess(train_data, nn)
  /\ vocab' = FreqDist(tokens')
  /\ IF nn /= 1 /\ (ngrams_raises(nn) \/ ngrams_raises(nn - 1))
     THEN /\ status' = "ValueError"
          /\ UNCHANGED <<model, masks>>
     ELSE \E table \in {create_model(tokens', vocab', nn, lap)} :
            IF division_raises(table)
            THEN /\ status' = "ZeroDivisionError"
                 /\ UNCHANGED <<model, masks>>
            ELSE /\ status' = "ok"
                 /\ model' = table
                 /\ masks' = masks_of(nn)
  /\ UNCHANGED <<train_data, genvars>>

Next == \E nn \in Orders, lap \in Laplaces : Construct(nn, lap)

Spec == Init /\ [][Next]_vars

\* ------------------------------------------------------------- generation
\* The notebook calls lm.generate_sentences, whose definition (with
\* probability and best_candidate) is in no cell of the file: this part
\* follows the design document's section 4.4.

\* a training corpus for the generation runs: sentences of whole words
Words == {<<"a">>, <<"a", "a">>, <<"a", " ", "a">>, <<" ", "a">>}

GenCorpora ==
  {<<>>} \cup {<<s>> : s \in Words} \cup {<<s, t>> : s \in Words, t \in Words}

GenInit == train_data \in GenCorpora /\ Unbuilt

\* p > q for fractions of positive denominator
Gt(p, q) == p[1] * q[2] > q[1] * p[2]

Times(p, q) == <<p[1] * q[1], p[2] * q[2]>>

\* the order of Python's str comparison on the characters of the model
Rank(c) ==
  IF c = "</s>" THEN 1 ELSE IF c = "<UNK>" THEN 2 ELSE IF c = "<s>" THEN 3 ELSE 4

LexLess(s, t) ==
  \E i \in 1..(Len(s) + 1) :
    /\ i <= Len(t)
    /\ \A j \in 1..(i - 1) : s[j] = t[j]
    /\ i = Len(s) + 1 \/ Rank(s[i]) < Rank(t[i])

\* the (n-1)-gram counts of the training stream, recomputed for a lookup
live_m_vocab == IF n > 1 THEN FreqDist(ngrams(tokens, n - 1)) ELSE NoTable

\* the stored value, else the smoothing formula on the live counts with
\* count(ngram) = 0
lookup(g, m_vocab) ==
  IF g \in DOMAIN model THEN model[g]
  ELSE IF n = 1 THEN <<0, Len(tokens)>>
  ELSE smoothed_count(g, 0, m_vocab, laplace, Cardinality(DOMAIN vocab))

\* probability(ngram)
probability(g) == lookup(g, live_m_vocab)

\* the lookup is defined for every n-gram: a unigram model stores every
\* vocabulary token, a smoothed model needs a positive constant
lookup_defined == n = 1 \/ laplace >= 1

\* the vocabulary token of highest probability after context, ties broken
\* by the lexicographic order of the tokens
best_candidate(context, exclude) ==
  LET cands == DOMAIN vocab \ exclude
      P(w) == probability(Append(context, w))
  IN  CHOOSE w \in cands :
        \A v \in cands \ {w} :
          Gt(P(w), P(v)) \/ (P(w) = P(v) /\ LexLess(w, v))

seed == [i \in 1..(n - 1) |-> SOSToken]

emitted == Len(sent) - (n - 1)

context == SubSeq(sent, Len(sent) - (n - 1) + 1, Len(sent))

\* mutant: the end marker never suppressed
excluded_never == {}

\* the end marker is not selectable before min_len tokens are out
excluded == IF emitted < min_len THEN {EOS} ELSE {}

choose_token ==
  LET w == best_candidate(context, excluded)
  IN  /\ sent' = Append(sent, w)
      /\ prob' = Times(prob, probability(Append(context, w)))

stop == (emitted >= 1 /\ sent[Len(sent)] = EOS) \/ emitted >= max_len

generate_sentences(count, mn, mx) ==
  /\ status = "ok"
  /\ lookup_defined
  /\ gstate = "IDLE"
  /\ gstate' = "SEEDED"
  /\ sent' = seed
  /\ prob' = <<1, 1>>
  /\ min_len' = mn
  /\ max_len' = mx
  /\ left' = count
  /\ UNCHANGED lmvars

FirstChoice ==
  /\ gstate = "SEEDED"
  /\ choose_token
  /\ gstate' = "EXTENDING"
  /\ UNCHANGED <<lmvars, min_len, max_len, left>>

Extend ==
  /\ gstate = "EXTENDING"
  /\ ~stop
  /\ choose_token
  /\ UNCHANGED <<lmvars, gstate, min_len, max_len, left>>

Terminate ==
  /\ gstate = "EXTENDING"
  /\ stop
  /\ gstate' = "TERMINATED"
  /\ left' = left - 1
  /\ UNCHANGED <<lmvars, sent, prob, min_len, max_len>>

NextSentence ==
  /\ gstate = "TERMINATED"
  /\ left > 0
  /\ gstate' = "SEEDED"
  /\ sent' = seed
  /\ prob' = <<1, 1>>
  /\ UNCHANGED <<lmvars, min_len, max_len, left>>

Return ==
  /\ gstate = "TERMINATED"
  /\ left = 0
  /\ gstate' = "IDLE"
  /\ UNCHANGED <<lmvars, sent, prob, min_len, max_len, left>>

GenStep == FirstChoice \/ Extend \/ Terminate \/ NextSentence \/ Return

GenNext ==
  \/ \E nn \in Orders, lap \in Laplaces : Construct(nn, lap)
  \/ \E count \in 1..MaxCount, mn \in 0..MaxGenLen, mx \in 1..MaxGenLen :
       generate_sentences(count, mn, mx)
  \/ FirstChoice
  \/ Extend
  \/ Terminate
  \/ NextSentence
  \/ Return

\* one generation run completes before its results are returned: every
\* step of the loop that can run does run
GenSpec == GenInit /\ [][GenNext]_vars /\ WF_vars(GenStep)

\* ------------------------------------------------------------- properties
\* occurrences of x in seq, counted position by position
Count(seq, x) == Cardinality({i \in 1..Len(seq) : seq[i] = x})

\* occurrences of the window g among the contiguous windows of the stream
Windows(g) ==
  Cardinality({i \in 1..(Len(tokens) - Len(g) + 1) :
                 SubSeq(tokens, i, i + Len(g) - 1) = g})

Prefix(g) == SubSeq(g, 1, Len(g) - 1)

\* distinct tokens of the stream
V == Cardinality({tokens[i] : i \in 1..Len(tokens)})

\* the start markers a sentence of an order-n model is given
Starts == IF n - 1 > 1 THEN n - 1 ELSE 1

\* C1: for k >= 1 sentences and n >= 1 the stream holds k * max(n-1, 1)
\* start markers and k end markers: it opens with the start markers of the
\* first sentence, closes with an end marker, and every other end marker is
\* followed at once by the start markers of the next sentence.
C1_Markers ==
  (status = "ok" /\ n >= 1 /\ Len(train_data) >= 1) =>
     /\ Count(tokens, SOSToken) = Len(train_data) * Starts
     /\ Count(tokens, EOS) = Len(train_data)
     /\ Len(tokens) > Starts
     /\ \A i \in 1..Starts : tokens[i] = SOSToken
     /\ tokens[Len(tokens)] = EOS
     /\ \A i \in 1..(Len(tokens) - 1) :
          tokens[i] = EOS =>
            \A j \in 1..Starts : i + j <= Len(tokens) /\ tokens[i + j] = SOSToken

\* C2: replace_singletons keeps the length; position i holds <UNK> exactly
\* when the raw token at i occurs once in the raw stream, and the raw token
\* otherwise; so every token of the stream and every key of the vocabulary
\* other than the reserved markers occurs at least twice.
C2_Singletons ==
  status = "ok" =>
    LET raw == raw_tokens(train_data, n)
    IN  /\ Len(tokens) = Len(raw)
        /\ \A i \in 1..Len(raw) :
             /\ tokens[i] = UNK <=> Count(raw, raw[i]) = 1
             /\ tokens[i] /= UNK => tokens[i] = raw[i]
        /\ \A i \in 1..Len(tokens) :
             tokens[i] \notin Reserved => Count(tokens, tokens[i]) >= 2
        /\ \A t \in DOMAIN vocab \ Reserved : vocab[t] >= 2

\* C2 witness: a built model whose stream holds a replaced singleton and a
\* kept ordinary token
C2_Witness ==
  /\ status = "ok"
  /\ \E i, j \in 1..Len(tokens) :
       /\ tokens[i] = UNK
       /\ raw_tokens(train_data, n)[i] \notin Reserved
       /\ tokens[j] \notin Reserved

\* C3: a model constructed on the empty sentence list has an empty token
\* stream, a vocabulary of size 0 and an empty probability table.
C3_EmptyCorpus ==
  (status = "ok" /\ n >= 1 /\ train_data = <<>>) =>
     /\ Len(tokens) = 0
     /\ Cardinality(DOMAIN vocab) = 0
     /\ DOMAIN model = {}

\* C4: for n > 1 the table has one entry per distinct n-token window of the
\* stream, and the entry of g is
\* (count(g) + laplace) / (count(prefix(g)) + laplace * V).
C4_Laplace ==
  (status = "ok" /\ n > 1) =>
     /\ DOMAIN model =
          {SubSeq(tokens, i, i + n - 1) : i \in 1..(Len(tokens) - n + 1)}
     /\ \A g \in DOMAIN model :
          model[g] = <<Windows(g) + laplace, Windows(Prefix(g)) + laplace * V>>

\* C4 witness: a trigram model with constant 2 holding an entry of an
\* n-gram seen twice whose prefix was seen more often than the n-gram
C4_Witness ==
  /\ status = "ok"
  /\ n = 3
  /\ laplace = 2
  /\ \E g \in DOMAIN model : Windows(g) = 2 /\ Windows(Prefix(g)) > 2

\* the (n-1)-token contexts and the n-grams over the vocabulary
Contexts == [1..(n - 1) -> DOMAIN vocab]

Grams == [1..n -> DOMAIN vocab]

\* the sum, over the tokens w of ws, of the numerator of the probability of
\* ctx followed by w
RECURSIVE SumNum(_, _, _)
SumNum(ctx, ws, mv) ==
  IF ws = {} THEN 0
  ELSE LET w == CHOOSE x \in ws : TRUE
       IN  lookup(Append(ctx, w), mv)[1] + SumNum(ctx, ws \ {w}, mv)

\* ctx is the last n-1 tokens of the stream
IsTail(ctx) ==
  /\ Len(tokens) >= n - 1
  /\ ctx = SubSeq(tokens, Len(tokens) - (n - 1) + 1, Len(tokens))

C6_Unigram ==
  (status = "ok" /\ n = 1) =>
     /\ Len(tokens) > 0
     /\ DOMAIN model = {<<tokens[i]>> : i \in 1..Len(tokens)}
     /\ \A g \in DOMAIN model : model[g] = <<Count(tokens, g[1]), Len(tokens)>>
     /\ SumNum(<<>>, DOMAIN vocab, NoTable) = Len(tokens)

\* C6 witness: a unigram model built with constant 2 over tokens of
\* different counts
C6_Witness ==
  /\ status = "ok"
  /\ n = 1
  /\ laplace = 2
  /\ \E g, h \in DOMAIN model : model[g][1] > model[h][1]

\* the fraction p lies in (0, 1]
InUnit(p) ==
  \/ p[2] > 0 /\ 0 < p[1] /\ p[1] <= p[2]
  \/ p[2] < 0 /\ p[1] < 0 /\ p[2] <= p[1]

\* C7 as claimed: in every constructed model of order n >= 1, whatever
\* laplace the constructor was given, every n-gram over the vocabulary has
\* a probability in (0, 1], and every stored n-gram occurs no more often
\* than its prefix.
C7_Positive ==
  (status = "ok" /\ n >= 1) =>
     /\ LET mv == live_m_vocab
        IN  \A g \in Grams : InUnit(lookup(g, mv))
     /\ n > 1 => \A g \in DOMAIN model : Windows(g) <= Windows(Prefix(g))

\* C7 as amended: the same for the unigram models and for the models built
\* with laplace > 0.
C7_PositiveWhenSmoothed ==
  (status = "ok" /\ n >= 1 /\ (n = 1 \/ laplace > 0)) =>
     /\ LET mv == live_m_vocab
        IN  \A g \in Grams : InUnit(lookup(g, mv))
     /\ n > 1 => \A g \in DOMAIN model : Windows(g) <= Windows(Prefix(g))

\* C7 witness: a smoothed bigram model with an n-gram over its vocabulary
\* that the training stream never holds, beside a stored one
C7_Witness ==
  /\ status = "ok"
  /\ n = 2
  /\ laplace = 1
  /\ DOMAIN model /= {}
  /\ \E g \in Grams : g \notin DOMAIN model /\ Windows(Prefix(g)) > 0

\* C8: a constructor call with n < 1 fails with a ConfigurationError and
\* leaves no table and no masks.
C8_InvalidOrder ==
  (status /= "none" /\ n < 1) =>
     /\ status = "ConfigurationError"
     /\ model = NoTable
     /\ masks = <<>>

\* Python's str.split(): cut at runs of spaces, no empty str in the result
whitespace_split(str) == SelectSeq(split(str), LAMBDA t : t /= <<>>)

\* C10: the raw stream is the whitespace split of the joined wrapped
\* sentences; no token of the stream and no key of the vocabulary is the
\* empty string or holds a space.
C10_NoEmptyToken ==
  (status = "ok" /\ n >= 1) =>
     /\ raw_tokens(train_data, n) =
          whitespace_split(join(add_sentence_tokens(train_data, n)))
     /\ \A i \in 1..Len(tokens) :
          tokens[i] /= <<>> /\ \A j \in 1..Len(tokens[i]) : tokens[i][j] /= " "
     /\ \A t \in DOMAIN vocab : t /= <<>>

====
